---- MODULE Spec2Model ----
(***************************************************************************)
(* A model of haven's collection downloader (src/haven/downloader.py) and  *)
(* of the part of the API client it calls (src/haven/client.py).           *)
(*                                                                         *)
(* The program runs on one asyncio event loop: a coroutine runs without    *)
(* interruption from one suspension point (an await that really waits) to  *)
(* the next.  Every action below is one such uninterrupted stretch of      *)
(* code.                                                                   *)
(*                                                                         *)
(* Two specifications share the variables:                                 *)
(*   Spec      a whole run of HavenDownloader.download(), from the call;   *)
(*   SpecUnits the dispatch and join of download() (lines 62-71) and the   *)
(*             transfer units (_download_file, lines 90-108), started in   *)
(*             the state of line 62 for any item list handed to lines      *)
(*             147-154.                                                    *)
(***************************************************************************)
EXTENDS Integers, Sequences, FiniteSets, TLC

\* ------------------------------------------------------------- bounds
MaxParallel == 2
MaxItems == 2
MaxSize == 1
MaxBody == 2
MaxCollections == 2
MaxId == 2

\* ------------------------------------------------------------- values
\* Python's None for the api key and the empty user name are both falsy.
NoKey == ""
ApiKeys == {NoKey, "key"}
UserNames == {"", "alice"}
Labels == {"Nature", "nature"}
CollectionNames == {"Nature", "Missing"}
\* next(..., None) at downloader.py:135-142
NoneId == -1
CollectionRecs == [id : 0..MaxId, label : Labels]

RECURSIVE SeqsUpTo(_, _)
SeqsUpTo(S, n) ==
  IF n = 0 THEN {<<>>}
  ELSE LET shorter == SeqsUpTo(S, n - 1)
       IN shorter \cup {Append(s, x) : s \in {t \in shorter : Len(t) = n - 1}, x \in S}

Listings == SeqsUpTo(CollectionRecs, MaxCollections)

\* An API response: its status code and its decoded JSON body, where has_data is
\* "the 'data' field is present and not null", has_error is "the 'error' key is
\* present", empty is "the object has no key at all".
Statuses == {200, 404}
JsonBodies ==
  {[has_data |-> TRUE, data |-> d, has_error |-> FALSE, empty |-> FALSE] : d \in Listings}
  \cup {[has_data |-> FALSE, data |-> <<>>, has_error |-> TRUE, empty |-> FALSE],
        [has_data |-> FALSE, data |-> <<>>, has_error |-> FALSE, empty |-> FALSE],
        [has_data |-> FALSE, data |-> <<>>, has_error |-> FALSE, empty |-> TRUE]}
JsonResponses ==
  {[status |-> st, has_data |-> b.has_data, data |-> b.data, has_error |-> b.has_error,
    empty |-> b.empty] : st \in Statuses, b \in JsonBodies}

\* The remote paths of items: a directory part and a last segment.
Paths == {<<"w", "a">>, <<"w", "b">>}
FileNames == {"a", "b"}
Images == [path : Paths, file_size : 0..MaxSize]
ImageLists == SeqsUpTo(Images, MaxItems)
NoFile == -1

VARIABLES
  apikey, parallel_requests, user_name, collection_name, \* the call's arguments
  pc, exc,                  \* download(): position, exception it raised
  client_headers,           \* http_client.headers, as a set of header names
  requests,                 \* requests issued so far
  collections,              \* what get_collections returned, and the status of
                            \* the response it was taken from
  file_data_list,           \* what _get_image_data returned
  sem_value, sem_waiters, woken,   \* self._sem: _value, _waiters, futures done
  total_bytes, transferred_bytes,  \* the 'Total' progress task
  started,                  \* how many unit tasks have run their first step
  upc,                      \* each unit's position
  task_progress,            \* each unit's progress task
  resp_status, resp_left,   \* each unit's response: status, bytes still to come
  acquired, released,       \* slot instrumentation: acquires, releases per unit
  files,                    \* the destination directory: name -> length
  fpos,                     \* each unit's file object: bytes written through it
  gather_exc,               \* the exception asyncio.gather was completed with
  cancel_req,               \* units whose task was cancelled and has not yet seen it
  torn                      \* asyncio.run has cancelled the remaining tasks

argVars == <<apikey, parallel_requests, user_name, collection_name>>
runVars == <<pc, exc, client_headers, requests, collections, file_data_list>>
semVars == <<sem_value, sem_waiters, woken>>
progVars == <<total_bytes, transferred_bytes, task_progress>>
unitVars == <<started, upc, resp_status, resp_left, acquired, released, files, fpos,
              gather_exc, cancel_req, torn>>
vars == <<argVars, runVars, semVars, progVars, unitVars>>

Units == 1..Len(file_data_list)

RECURSIVE SumOver(_, _)
SumOver(f, S) ==
  IF S = {} THEN 0
  ELSE LET x == CHOOSE y \in S : TRUE IN f[x] + SumOver(f, S \ {x})

\* ------------------------------------------------- the API client
\* The methods class HavenClient defines.
HavenClientMethods ==
  {"get_collections", "get_wallpapper_list", "find_wallpapers", "get_user_settings"}

\* HavenClient.__init__: the key, when truthy, becomes a default header of the
\* http client it was given.
HavenClientInit(headers, key) ==
  IF key # NoKey THEN headers \cup {"X-API-Key"} ELSE headers

\* A request sent through the http client carries the client's default headers.
Request(kind, headers) == [kind |-> kind, key |-> "X-API-Key" \in headers]

\* A guard written with `or`: it refuses as soon as one of the two is missing.
CredentialMissingEither(username, key) == username = "" \/ key = NoKey

\* HavenClient.get_collections' guard.
CredentialMissing(username, key) == username = "" /\ key = NoKey

\* HavenClient._get_resp_data: the data field when it is not None; otherwise
\* ClientRequestError when the body has an 'error' key; otherwise the body itself.
GetRespData(resp) ==
  IF resp.has_data THEN [raises |-> FALSE, kind |-> "list", items |-> resp.data]
  ELSE IF resp.has_error THEN [raises |-> TRUE, kind |-> "none", items |-> <<>>]
  ELSE [raises |-> FALSE, kind |-> "dict", items |-> <<>>]

\* ------------------------------------------------- _get_image_data
\* next((c['id'] for c in collections if c['label'] == name), None)
FirstMatchId(items, name) ==
  LET hits == {k \in 1..Len(items) : items[k].label = name}
  IN IF hits = {} THEN NoneId
     ELSE items[CHOOSE k \in hits : \A m \in hits : k <= m].id

\* A search that defaults to 0 instead of None: a missing label then looks found.
NotFoundOnlyZero(id) == id = 0

\* `if not collection_id`: None and 0 are both falsy.
NotFound(id) == id = NoneId \/ id = 0

\* FileData(name=path.rsplit('/', 1)[-1], url=path, size=file_size)
FileDataOf(image) ==
  [name |-> image.path[Len(image.path)], url |-> image.path, size |-> image.file_size]

FileDataList(images) == [k \in 1..Len(images) |-> FileDataOf(images[k])]

\* ------------------------------------------------- the semaphore
\* A pool built one permit too large.
SemaphoreInitOneMore(n) == n + 1

\* asyncio.Semaphore(parallel_requests): the initial number of permits.
SemaphoreInit(n) == n

\* asyncio.Semaphore raises ValueError for a negative value, and only for that:
\* HavenDownloader.__init__ itself checks nothing.
SemaphoreAccepts(n) == n >= 0

\* The values of parallel_requests with which a downloader gets constructed.
ParallelChoices == {n \in -1..MaxParallel : SemaphoreAccepts(n)}

NoUnits == <<>>
NoListing == [kind |-> "none", items |-> <<>>, status |-> 0]

InitCommon ==
  /\ apikey \in ApiKeys
  /\ parallel_requests \in ParallelChoices
  /\ exc = "none"
  /\ sem_value = SemaphoreInit(parallel_requests)
  /\ sem_waiters = <<>>
  /\ woken = {}
  /\ total_bytes = NoFile
  /\ transferred_bytes = 0
  /\ started = 0
  /\ files = [n \in FileNames |-> NoFile]
  /\ gather_exc = "none"
  /\ cancel_req = {}
  /\ torn = FALSE

\* The state in which download() is called on a new downloader.
Init ==
  /\ InitCommon
  /\ user_name \in UserNames
  /\ collection_name \in CollectionNames
  /\ pc = "start"
  /\ client_headers = {}
  /\ requests = {}
  /\ collections = NoListing
  /\ file_data_list = <<>>
  /\ upc = NoUnits
  /\ task_progress = NoUnits
  /\ resp_status = NoUnits
  /\ resp_left = NoUnits
  /\ acquired = NoUnits
  /\ released = NoUnits
  /\ fpos = NoUnits

Raise(e) == pc' = "raised" /\ exc' = e

\* download() up to the first suspension: the http client is opened,
\* _get_image_data builds a HavenClient and get_collections either refuses or
\* sends its request.
DownloadStart ==
  /\ pc = "start"
  /\ client_headers' = HavenClientInit(client_headers, apikey)
  /\ IF CredentialMissing(user_name, apikey)
       THEN Raise("UserOrApikeyNotSetError") /\ UNCHANGED requests
       ELSE /\ pc' = "await_collections"
            /\ requests' = requests \cup {Request("collections", client_headers')}
            /\ UNCHANGED exc
  /\ UNCHANGED <<argVars, collections, file_data_list, semVars, progVars, unitVars>>

\* The collections request fails in transport: the error leaves download().
CollectionsRequestFails ==
  /\ pc = "await_collections"
  /\ Raise("HTTPError")
  /\ UNCHANGED <<argVars, client_headers, requests, collections, file_data_list,
                 semVars, progVars, unitVars>>

\* The response to get_collections arrives; _get_image_data runs on to its next
\* await or raise: _get_resp_data, the search for the label, the item request.
CollectionsResponse ==
  /\ pc = "await_collections"
  /\ \E resp \in JsonResponses :
       LET r == GetRespData(resp)
           id == FirstMatchId(r.items, collection_name)
       IN IF r.raises
            THEN Raise("ClientRequestError") /\ UNCHANGED <<collections, requests>>
          ELSE IF r.kind = "dict" /\ ~resp.empty
            \* iterating a dict yields its keys: key['label'] on a str
            THEN /\ Raise("TypeError")
                 /\ collections' = [kind |-> "dict", items |-> <<>>, status |-> resp.status]
                 /\ UNCHANGED requests
          ELSE IF NotFound(id)
            THEN /\ Raise("RuntimeError")
                 /\ collections' = [kind |-> r.kind, items |-> r.items, status |-> resp.status]
                 /\ UNCHANGED requests
          ELSE IF "get_collection" \in HavenClientMethods
            THEN /\ pc' = "await_items"
                 /\ collections' = [kind |-> r.kind, items |-> r.items, status |-> resp.status]
                 /\ requests' = requests \cup {Request("items", client_headers)}
                 /\ UNCHANGED exc
          \* client.get_collection: HavenClient has no such attribute
          ELSE /\ Raise("AttributeError")
               /\ collections' = [kind |-> r.kind, items |-> r.items, status |-> resp.status]
               /\ UNCHANGED requests
  /\ UNCHANGED <<argVars, client_headers, file_data_list, semVars, progVars, unitVars>>

Next == DownloadStart \/ CollectionsRequestFails \/ CollectionsResponse

Spec == Init /\ [][Next]_vars

\* ------------------------------------------------- asyncio.Semaphore
\* A waiter's future is cancelled when its task was cancelled before the future
\* got its result.
FutCancelled(u) == u \in cancel_req /\ u \notin woken

\* Semaphore.locked(): no permit, or somebody is already queueing.
Locked ==
  sem_value = 0 \/ \E k \in 1..Len(sem_waiters) : ~FutCancelled(sem_waiters[k])

\* Semaphore._wake_up_next() on counter v, queue w: the first waiter whose future
\* is not done takes a permit.
WakeUpNext(v, w) ==
  LET open == {k \in 1..Len(w) : w[k] \notin woken /\ w[k] \notin cancel_req}
  IN IF open = {} THEN [value |-> v, woken |-> woken]
     ELSE [value |-> v - 1,
           woken |-> woken \cup {w[CHOOSE k \in open : \A m \in open : k <= m]}]

\* Semaphore.release()
Release(v, w) == WakeUpNext(v + 1, w)

Without(w, u) == SelectSeq(w, LAMBDA x : x # u)

\* ------------------------------------------------- download(): dispatch, join
Terminal == {"done", "failed", "cancelled"}
NewTask == [added |-> FALSE, total |-> 0, completed |-> 0, check |-> FALSE, visible |-> FALSE]

\* The state at downloader.py:62: _get_image_data has returned the FileData of
\* an item list; nothing of the dispatch has run.
InitUnits ==
  /\ InitCommon
  /\ user_name = "alice"
  /\ collection_name = "Nature"
  /\ pc = "dispatch"
  /\ client_headers = HavenClientInit({}, apikey)
  /\ requests = {Request("collections", client_headers), Request("items", client_headers)}
  /\ collections = [kind |-> "list", items |-> <<[id |-> 1, label |-> collection_name]>>,
                    status |-> 200]
  /\ \E images \in ImageLists : file_data_list = FileDataList(images)
  /\ upc = [i \in Units |-> "none"]
  /\ task_progress = [i \in Units |-> NewTask]
  /\ resp_status = [i \in Units |-> 0]
  /\ resp_left = [i \in Units |-> 0]
  /\ acquired = [i \in Units |-> 0]
  /\ released = [i \in Units |-> 0]
  /\ fpos = [i \in Units |-> 0]

\* sum(fdata.size for fdata in file_data_list)
TotalSize(fdl) == SumOver([k \in 1..Len(fdl) |-> fdl[k].size], 1..Len(fdl))

\* Lines 62-71 up to the await of gather: the 'Total' task is added with the sum
\* of the sizes and one task per FileData is scheduled.  gather() of nothing is
\* already done, and download() returns.
Dispatch ==
  /\ pc = "dispatch"
  /\ total_bytes' = TotalSize(file_data_list)
  /\ upc' = [i \in Units |-> "created"]
  /\ pc' = IF Units = {} THEN "returned" ELSE "gather"
  /\ UNCHANGED <<argVars, exc, client_headers, requests, collections, file_data_list,
                 semVars, transferred_bytes, task_progress, started, resp_status,
                 resp_left, acquired, released, files, fpos, gather_exc, cancel_req, torn>>

\* Every unit returned: gather's result is set and download() returns None.
GatherReturn ==
  /\ pc = "gather"
  /\ \A i \in Units : upc[i] = "done"
  /\ pc' = "returned"
  /\ UNCHANGED <<argVars, exc, client_headers, requests, collections, file_data_list,
                 semVars, progVars, unitVars>>

\* gather (return_exceptions=False) is completed with the first exception a unit
\* raised; download() leaves both `with` blocks and raises it.
GatherRaise ==
  /\ pc = "gather"
  /\ gather_exc # "none"
  /\ Raise(gather_exc)
  /\ UNCHANGED <<argVars, client_headers, requests, collections, file_data_list,
                 semVars, progVars, unitVars>>

\* cli.py: asyncio.run() cancels every task still pending when download() raised.
Teardown ==
  /\ pc = "raised"
  /\ ~torn
  /\ torn' = TRUE
  /\ cancel_req' = {i \in Units : upc[i] \notin Terminal}
  /\ UNCHANGED <<argVars, runVars, semVars, progVars, started, upc, resp_status,
                 resp_left, acquired, released, files, fpos, gather_exc>>

\* ------------------------------------------------- _download_file
\* Lines 92-95 after acquire() returned: the unit's progress task is added and
\* the stream request is sent.
AfterAcquire(i) ==
  /\ acquired' = [acquired EXCEPT ![i] = @ + 1]
  /\ task_progress' = [task_progress EXCEPT ![i] =
        [added |-> TRUE, total |-> file_data_list[i].size, completed |-> 0,
         check |-> FALSE, visible |-> TRUE]]
  /\ requests' = requests \cup {Request("file", client_headers)}
  /\ upc' = [upc EXCEPT ![i] = "stream_open"]

\* The unit raises e: nothing after the raise runs, the release included.
Fail(i, e) ==
  /\ upc' = [upc EXCEPT ![i] = "failed"]
  /\ gather_exc' = IF gather_exc = "none" THEN e ELSE gather_exc

\* acquire() called without `await`: a unit that finds the pool locked does not
\* queue but goes straight on to lines 92-95.
StartNotAwaited(i) ==
  /\ pc = "gather"
  /\ upc[i] = "created"
  /\ started = i - 1
  /\ started' = i
  /\ IF ~Locked
       THEN /\ sem_value' = sem_value - 1
            /\ AfterAcquire(i)
            /\ UNCHANGED <<sem_waiters, woken>>
       ELSE /\ task_progress' = [task_progress EXCEPT ![i] =
                  [added |-> TRUE, total |-> file_data_list[i].size, completed |-> 0,
                   check |-> FALSE, visible |-> TRUE]]
            /\ requests' = requests \cup {Request("file", client_headers)}
            /\ upc' = [upc EXCEPT ![i] = "stream_open"]
            /\ UNCHANGED <<sem_value, sem_waiters, woken, acquired>>
  /\ UNCHANGED <<argVars, pc, exc, client_headers, collections, file_data_list,
                 total_bytes, transferred_bytes, resp_status, resp_left, released,
                 files, fpos, gather_exc, cancel_req, torn>>

\* First step of unit i's task (tasks start in list order): acquire() takes a
\* permit at once, or queues.
Start(i) ==
  /\ pc = "gather"
  /\ upc[i] = "created"
  /\ started = i - 1
  /\ started' = i
  /\ IF ~Locked
       THEN /\ sem_value' = sem_value - 1
            /\ AfterAcquire(i)
            /\ UNCHANGED <<sem_waiters, woken>>
       ELSE /\ sem_waiters' = Append(sem_waiters, i)
            /\ upc' = [upc EXCEPT ![i] = "acquire"]
            /\ UNCHANGED <<sem_value, woken, acquired, task_progress, requests>>
  /\ UNCHANGED <<argVars, pc, exc, client_headers, collections, file_data_list,
                 total_bytes, transferred_bytes, resp_status, resp_left, released,
                 files, fpos, gather_exc, cancel_req, torn>>

\* A queued unit whose future got its result resumes in acquire(): it leaves the
\* queue, passes a spare permit on, and goes on to lines 92-95.
Resume(i) ==
  /\ pc = "gather"
  /\ upc[i] = "acquire"
  /\ i \in woken
  /\ LET w == Without(sem_waiters, i)
         r == IF sem_value > 0 THEN WakeUpNext(sem_value, w)
              ELSE [value |-> sem_value, woken |-> woken]
     IN /\ sem_waiters' = w
        /\ sem_value' = r.value
        /\ woken' = r.woken \ {i}
  /\ AfterAcquire(i)
  /\ UNCHANGED <<argVars, pc, exc, client_headers, collections, file_data_list,
                 total_bytes, transferred_bytes, started, resp_status, resp_left,
                 released, files, fpos, gather_exc, cancel_req, torn>>

\* The stream request fails (connect error, timeout): `async with` raises.
StreamFails(i) ==
  /\ pc = "gather"
  /\ started = Len(file_data_list)
  /\ upc[i] = "stream_open"
  /\ Fail(i, "TimeoutException")
  /\ UNCHANGED <<argVars, runVars, semVars, progVars, started, resp_status,
                 resp_left, acquired, released, files, fpos, cancel_req, torn>>

\* The response arrives, with any status and any body length; the status is not
\* looked at.  Line 96 opens the destination: 'wb' creates or truncates it.
StreamOpens(i) ==
  /\ pc = "gather"
  /\ started = Len(file_data_list)
  /\ upc[i] = "stream_open"
  /\ \E st \in Statuses, len \in 0..MaxBody :
       /\ resp_status' = [resp_status EXCEPT ![i] = st]
       /\ resp_left' = [resp_left EXCEPT ![i] = len]
  /\ files' = [files EXCEPT ![file_data_list[i].name] = 0]
  /\ fpos' = [fpos EXCEPT ![i] = 0]
  /\ upc' = [upc EXCEPT ![i] = "read"]
  /\ UNCHANGED <<argVars, runVars, semVars, progVars, started, acquired, released,
                 gather_exc, cancel_req, torn>>

\* The response arrives but open() raises OSError.
FileOpenFails(i) ==
  /\ pc = "gather"
  /\ started = Len(file_data_list)
  /\ upc[i] = "stream_open"
  /\ Fail(i, "OSError")
  /\ UNCHANGED <<argVars, runVars, semVars, progVars, started, resp_status,
                 resp_left, acquired, released, files, fpos, cancel_req, torn>>

Max(a, b) == IF a >= b THEN a ELSE b

\* A counter that is set to the chunk length instead of advanced by it.
AdvanceOverwrite(completed, n) == n

\* progress.advance(task, n)
Advance(completed, n) == completed + n

\* The loop body without line 101: only the unit's own task advances.
ChunkItemOnly(i) ==
  /\ pc = "gather"
  /\ upc[i] = "read"
  /\ resp_left[i] > 0
  /\ \E n \in 1..resp_left[i] :
       /\ resp_left' = [resp_left EXCEPT ![i] = @ - n]
       /\ files' = [files EXCEPT ![file_data_list[i].name] = Max(@, fpos[i] + n)]
       /\ fpos' = [fpos EXCEPT ![i] = @ + n]
       /\ task_progress' = [task_progress EXCEPT ![i].completed = Advance(@, n)]
       /\ transferred_bytes' = transferred_bytes
  /\ UNCHANGED <<argVars, runVars, semVars, total_bytes, started, upc, resp_status,
                 acquired, released, gather_exc, cancel_req, torn>>

\* One pass of the loop at lines 98-101: a chunk of n bytes is written at the
\* unit's own file offset and both progress tasks advance by n.
Chunk(i) ==
  /\ pc = "gather"
  /\ upc[i] = "read"
  /\ resp_left[i] > 0
  /\ \E n \in 1..resp_left[i] :
       /\ resp_left' = [resp_left EXCEPT ![i] = @ - n]
       /\ files' = [files EXCEPT ![file_data_list[i].name] = Max(@, fpos[i] + n)]
       /\ fpos' = [fpos EXCEPT ![i] = @ + n]
       /\ task_progress' = [task_progress EXCEPT ![i].completed = Advance(@, n)]
       /\ transferred_bytes' = Advance(transferred_bytes, n)
  /\ UNCHANGED <<argVars, runVars, semVars, total_bytes, started, upc, resp_status,
                 acquired, released, gather_exc, cancel_req, torn>>

\* Reading the next chunk times out, or writing it raises OSError.
ChunkFails(i) ==
  /\ pc = "gather"
  /\ upc[i] = "read"
  /\ \E e \in {"TimeoutException", "OSError"} :
       /\ e = "OSError" => resp_left[i] > 0
       /\ Fail(i, e)
  /\ UNCHANGED <<argVars, runVars, semVars, progVars, started, resp_status,
                 resp_left, acquired, released, files, fpos, cancel_req, torn>>

\* The body ends: both `with` blocks are left, line 103 puts the check mark on
\* the task and the unit sleeps (line 105).
StreamEnds(i) ==
  /\ pc = "gather"
  /\ upc[i] = "read"
  /\ resp_left[i] = 0
  /\ task_progress' = [task_progress EXCEPT ![i].check = TRUE]
  /\ upc' = [upc EXCEPT ![i] = "sleep"]
  /\ UNCHANGED <<argVars, runVars, semVars, total_bytes, transferred_bytes, started,
                 resp_status, resp_left, acquired, released, files, fpos, gather_exc,
                 cancel_req, torn>>

\* The sleep is over: the task is hidden (line 106), the slot released (line 108)
\* and the unit returns.
SleepDone(i) ==
  /\ pc = "gather"
  /\ upc[i] = "sleep"
  /\ task_progress' = [task_progress EXCEPT ![i].visible = FALSE]
  /\ LET r == Release(sem_value, sem_waiters)
     IN sem_value' = r.value /\ woken' = r.woken
  /\ released' = [released EXCEPT ![i] = @ + 1]
  /\ upc' = [upc EXCEPT ![i] = "done"]
  /\ UNCHANGED <<argVars, runVars, sem_waiters, total_bytes, transferred_bytes,
                 started, resp_status, resp_left, acquired, files, fpos, gather_exc,
                 cancel_req, torn>>

\* A cancelled unit resumes with CancelledError at its suspension point.  In
\* acquire() it leaves the queue, and gives back the permit it had been handed;
\* anywhere later the error leaves _download_file.
Cancelled(i) ==
  /\ i \in cancel_req
  /\ upc[i] \notin Terminal
  /\ cancel_req' = cancel_req \ {i}
  /\ upc' = [upc EXCEPT ![i] = "cancelled"]
  /\ IF upc[i] = "acquire"
       THEN LET w == Without(sem_waiters, i)
                r == IF i \in woken THEN WakeUpNext(sem_value + 1, w)
                     ELSE [value |-> sem_value, woken |-> woken]
            IN /\ sem_waiters' = w
               /\ sem_value' = r.value
               /\ woken' = r.woken \ {i}
       ELSE UNCHANGED semVars
  /\ UNCHANGED <<argVars, runVars, progVars, started, resp_status, resp_left,
                 acquired, released, files, fpos, gather_exc, torn>>

NextUnits ==
  \/ Dispatch
  \/ GatherReturn
  \/ GatherRaise
  \/ Teardown
  \/ \E i \in Units : Start(i)
  \/ \E i \in Units : Resume(i)
  \/ \E i \in Units : StreamFails(i)
  \/ \E i \in Units : StreamOpens(i)
  \/ \E i \in Units : FileOpenFails(i)
  \/ \E i \in Units : Chunk(i)
  \/ \E i \in Units : ChunkFails(i)
  \/ \E i \in Units : StreamEnds(i)
  \/ \E i \in Units : SleepDone(i)
  \/ \E i \in Units : Cancelled(i)

SpecUnits == InitUnits /\ [][NextUnits]_vars

\* ------------------------------------------------- the claims
\* Units that acquired a slot and have not released it.
Holders == {i \in Units : acquired[i] > released[i]}

FileRequested == \E r \in requests : r.kind = "file"
ItemsRequested == \E r \in requests : r.kind = "items"
RunOver == pc \in {"returned", "raised"}

\* The status a unit shows: its progress task is added right after the acquire
\* (line 92) and gets the check mark on completion (line 103); nothing in
\* _download_file records a failure.
Status(i) ==
  IF task_progress[i].check THEN "completed"
  ELSE IF task_progress[i].added THEN "running"
  ELSE "pending"

\* C1: in every state of a run, the number of units that acquired a slot and
\* have not released it is at most parallel_requests.
C1_ConcurrencyBound == Cardinality(Holders) <= parallel_requests

\* C1's case: the pool is full and a unit is queueing for a slot.
C1_PoolFullWithWaiter ==
  /\ Cardinality(Holders) = parallel_requests
  /\ \E i \in Units : upc[i] = "acquire"

\* C2: every unit that acquired a slot has released it exactly once when it has
\* exited, whatever the exit: return, error, cancellation.
C2_ReleasedOnEveryExit ==
  \A i \in Units : upc[i] \in Terminal => released[i] = acquired[i]

\* C3: a failure of one unit never cancels another: a unit ends only by
\* completing or by a failure of its own transfer.
C3_SiblingsNeverCancelled ==
  \A j \in Units : upc[j] \in Terminal => upc[j] \in {"done", "failed"}

\* C4: the run ends only after every unit reached a terminal state, and it ends
\* by returning, not by raising.
C4_ReturnsAfterAllTerminal ==
  RunOver => pc = "returned" /\ \A i \in Units : upc[i] \in {"done", "failed"}

\* C5: when the listing holds no collection with the label, the run fails with
\* the not-found error, no item list was requested, there is no unit, no slot is
\* taken and no file exists.
C5_NotFoundAbortsBeforeListing ==
  (collections.kind = "list"
     /\ \A k \in 1..Len(collections.items) : collections.items[k].label # collection_name)
  => /\ pc = "raised" /\ exc = "RuntimeError"
     /\ ~ItemsRequested /\ ~FileRequested
     /\ Units = {}
     /\ sem_value = parallel_requests
     /\ \A n \in FileNames : files[n] = NoFile

\* C5's case: a listing with collections, none of them with the label.
C5_ListingWithoutLabel ==
  /\ collections.kind = "list"
  /\ Len(collections.items) > 0
  /\ \A k \in 1..Len(collections.items) : collections.items[k].label # collection_name
  /\ RunOver

\* C6: no run ends with an exception after a file has been attempted.
C6_NoExceptionAfterAttempt ==
  pc = "raised" => ~FileRequested /\ \A i \in Units : acquired[i] = 0

\* C7: a run whose label resolves (to a non-zero id) requests the item list from
\* the client and does not abort.
C7_ResolvedRunListsItems ==
  (collections.kind = "list" /\ FirstMatchId(collections.items, collection_name) > 0)
  => exc = "none" /\ ItemsRequested

\* C8: after a run in which every unit succeeded, the aggregate counter equals
\* the sum of the descriptors' sizes.
C8_TransferredEqualsSizes ==
  pc = "returned" => transferred_bytes = TotalSize(file_data_list)

\* C9: transferred_bytes <= total_bytes in every state after the dispatch, and
\* total_bytes stays the sum of the descriptors' sizes.
C9_TransferredAtMostTotal ==
  pc # "dispatch" =>
    transferred_bytes <= total_bytes /\ total_bytes = TotalSize(file_data_list)

\* C10: a unit that left running by an error shows the status failed.
C10_ErrorMarksFailed ==
  \A i \in Units : upc[i] = "failed" => Status(i) = "failed"


CollectionsRequested == \E r \in requests : r.kind = "collections"

\* C11: get_collections with neither a user name nor an api key raises
\* UserOrApikeyNotSetError and no request was issued; with either of them it does
\* not raise that error and the collections request is sent.
C11_AuthRequiredBeforeRequest ==
  pc # "start" =>
    IF user_name = "" /\ apikey = NoKey
      THEN pc = "raised" /\ exc = "UserOrApikeyNotSetError" /\ requests = {}
      ELSE exc # "UserOrApikeyNotSetError" /\ CollectionsRequested

\* C11's case: the call was refused for the missing credential.
C11_Refused ==
  user_name = "" /\ apikey = NoKey /\ exc = "UserOrApikeyNotSetError"


\* Unit i is the only one that writes its destination path.
SoleWriter(i) == \A j \in Units : j # i => file_data_list[j].name # file_data_list[i].name

\* C12: a unit that completed got a success status and left a file whose length
\* is the descriptor's size.
C12_CompletedMeansFullFile ==
  \A i \in Units :
    (upc[i] = "done" /\ SoleWriter(i)) =>
      /\ resp_status[i] = 200
      /\ files[file_data_list[i].name] = file_data_list[i].size


\* C13: a value reaches the caller of a metadata call only from a success
\* response; every other response raises ClientRequestError.
C13_NonSuccessRaises ==
  collections.kind # "none" => collections.status = 200


\* C14: every step in which a unit sends its stream request, opens (creates or
\* truncates) its destination, adds or advances its progress entry is a step of
\* a unit that holds a slot.
C14_AcquireBeforeIo ==
  [][\A i \in Units :
       (\/ upc'[i] # upc[i] /\ upc'[i] \in {"stream_open", "read"}
        \/ task_progress'[i].added # task_progress[i].added
        \/ task_progress'[i].completed # task_progress[i].completed)
       => acquired'[i] > released'[i]]_vars

\* C14's case: one unit has written bytes while another still queues for a slot
\* and has done nothing.
C14_WaiterIdleWhileHolderWrites ==
  \E i, j \in Units :
    /\ upc[i] = "acquire" /\ ~task_progress[i].added
    /\ task_progress[j].completed > 0


C16_NoIncrementLost ==
  [][/\ transferred_bytes' >= transferred_bytes
     /\ RunOver' => transferred_bytes' = SumOver(fpos', Units)]_vars

\* C16's case: the join ended by an error of a unit that had written part of its
\* body, after another unit had completed.
C16_JoinOverWithPartialBytes ==
  /\ pc = "raised"
  /\ \E i, j \in Units :
       /\ upc[i] = "failed" /\ fpos[i] > 0
       /\ upc[j] = "done" /\ fpos[j] > 0


\* C17: when a collection of the listing has the label, the run does not fail
\* with the not-found error, whatever the id of the first such collection.
C17_MatchingLabelResolves ==
  (collections.kind = "list"
     /\ \E k \in 1..Len(collections.items) : collections.items[k].label = collection_name)
  => exc # "RuntimeError"

\* C18: no run exists in which every unit is blocked in its first acquire while
\* nobody holds a slot.
C18_NeverAllBlockedOnEmptyPool ==
  ~(/\ Units # {}
    /\ \A i \in Units : upc[i] = "acquire"
    /\ Holders = {})

\* C19: when a download call is over and all its units have ended, the pool has
\* all its parallel_requests permits again.
C19_PoolFullAfterRun ==
  (RunOver /\ \A i \in Units : upc[i] \in Terminal) => sem_value = parallel_requests

\* C20: with at least one permit, a unit that waits in acquire is never left
\* with nobody to wake it: a permit is on its way to it, or some holder of a
\* slot is still transferring and will release.
C20_WaiterNeverStranded ==
  (parallel_requests >= 1 /\ pc = "gather") =>
    \A i \in Units :
      (upc[i] = "acquire" /\ i \notin woken) =>
        \E j \in Holders : upc[j] \notin Terminal


\* C21: no request for a file URL of an item descriptor carries the X-API-Key
\* header; the requests for the files are the same with and without an API key.
C21_NoKeyOnFileRequests == \A r \in requests : r.kind = "file" => ~r.key

====
